---- MODULE Spec2Model ----
(***************************************************************************)
(* Model of 'beye' (analyzer/beye.py): main, ReportDirectory and           *)
(* run_analyzer with its multiprocessing pool.                             *)
(***************************************************************************)
EXTENDS Integers, Sequences, FiniteSets, TLC

\* ---------------------------------------------------------------- bounds
MaxEntries == 2
NumCPU == 2
MaxBugs == 2
MaxLines == 2
MaxList == 2
MaxCalls == 2
MaxDb == 2
MaxRecs == 3

\* ------------------------------------------------------------- constants
Entries == 1..MaxEntries
Workers == 1..NumCPU
TmpHint == "/tmp"
FreshDir == "/tmp/beye-XXXXXX.out"
VarTmp == "/var/tmp"
Paths == {"out", FreshDir, VarTmp}
Hints == {TmpHint, "out", VarTmp}
Formats == {"html", "plist", "plist-html"}
ReportFile == <<"index.html", 0>>
OldFile == <<"old", 0>>
OutFile(e) == <<"report", e>>
InputKinds == {"missing", "malformed", "ok"}
RunOutcomes == {"analyzer", "plain", "none", "raise"}

VARIABLES
    args,           \* the dictionary returned by parse_command_line
    input,          \* the file args['input'] names: [kind, n]
    exists,         \* the directories that exist
    files,          \* files[p]: the names in directory p
    pc,             \* position of the main process
    exc,            \* the exception propagating in the main process
    retval,         \* what main returns (meaningful once it returned)
    name,           \* ReportDirectory.name
    processes,      \* size of the multiprocessing.Pool (0: no pool)
    worker,         \* worker[w]: [st: "none", "idle", "busy" or "exited", e: its entry]
    taskq,          \* entries put in the pool's task queue, not yet taken
    dispatched,     \* how many entries the task feeder has taken from wrap()
    results,        \* the pool's result queue, in completion order
    consumed,       \* consumed[e]: times the for loop got e's result or exception
    analysed,       \* analysed[e]: times run() was started on e
    closed,         \* pool.close() was called
    feeding,        \* imap_unordered was called: its task feeder runs
    listing,        \* <<what os.listdir returned in __exit__>>, <<>> before
    exitCount,      \* times __exit__ was entered
    removedBy,      \* directories this run removed
    reportCalls,    \* times generate_report was invoked
    number_of_bugs, \* main's number_of_bugs
    log,            \* the lines passed to logging.info, in order
    xl,             \* parameters_from_command_line: [cfg: its args, outs: its results]
    px,             \* get_prefix_from: database, accumulator and result
    dd              \* duplicate_check: the predicates built and their answers

vars == <<args, input, exists, files, pc, exc, retval, name, processes, worker,
          taskq, dispatched, results, consumed, analysed, closed, feeding,
          listing,
          exitCount, removedBy, reportCalls, number_of_bugs, log, xl, px, dd>>

\* the state of a run of main
runVars == <<args, input, exists, files, pc, exc, retval, name, processes,
             worker, taskq, dispatched, results, consumed, analysed, closed,
             feeding, listing, exitCount, removedBy, reportCalls,
             number_of_bugs, log>>

\* the state of the functions that are checked on their own
pureVars == <<xl, px, dd>>

fsVars == <<exists, files>>
poolVars == <<processes, worker, taskq, dispatched, results, consumed,
              analysed, closed, feeding>>
mainVars == <<pc, exc, retval, name, listing, exitCount, removedBy,
              reportCalls, number_of_bugs>>

None == "None"

\* the environment variables tempdir() reads
EnvSet == [TMPDIR : {None, VarTmp}, TEMP : {None, VarTmp}, TMP : {None, VarTmp}]

\* os.getenv(key, default)
getenv(env, key, default) == IF env[key] = None THEN default ELSE env[key]

\* libscanbuild.tempdir: the default temporary directory
tempdir(env) ==
    getenv(env, "TMPDIR", getenv(env, "TEMP", getenv(env, "TMP", "/tmp")))

\* parse_command_line: every option of the parser is a key of the result
ArgsSet ==
    [input : {"compile_commands.json"},
     output : Hints,
     sequential : BOOLEAN,
     status_bugs : BOOLEAN,
     keep_empty : BOOLEAN,
     output_format : Formats]

InputSet ==
    {[kind |-> k, n |-> 0] : k \in {"missing", "malformed"}}
    \cup {[kind |-> "ok", n |-> n] : n \in 0..MaxEntries}

Init ==
    /\ args \in ArgsSet
    /\ input \in InputSet
    /\ exists \in {{VarTmp}, {"out", VarTmp}}
    /\ files \in {[p \in Paths |-> IF p = "out" /\ "out" \in exists
                                    THEN f ELSE {}] : f \in {{}, {OldFile}}}
    /\ pc = "start"
    /\ exc = None
    /\ retval = 0
    /\ name = None
    /\ processes = 0
    /\ worker = [w \in Workers |-> [st |-> "none", e |-> 0]]
    /\ taskq = <<>>
    /\ dispatched = 0
    /\ results = <<>>
    /\ consumed = [e \in Entries |-> 0]
    /\ analysed = [e \in Entries |-> 0]
    /\ closed = FALSE
    /\ feeding = FALSE
    /\ listing = <<>>
    /\ exitCount = 0
    /\ removedBy = {}
    /\ reportCalls = 0
    /\ number_of_bugs = 0
    /\ log = <<>>
    /\ xl = <<>>
    /\ px = <<>>
    /\ dd = <<>>

\* ------------------------------------------------------ ReportDirectory
mkdirLazy(path) == UNCHANGED exists

\* os.mkdir(path) and tempfile.mkdtemp: the directory exists afterwards
mkdir(path) == exists' = exists \cup {path}

UnwindNoRelease == "done"

\* line 54: leaving the body of the with statement, by return or by an
\* exception, goes through ReportDirectory.__exit__
Unwind == "exit"

RetainNonEmptyOnly(listed, keep) == listed # {}

RetainKeepOnly(listed, keep) == keep

\* lines 82-88: the directory is left in place when it lists entries or keep is set
Retain(listed, keep) == listed # {} \/ keep

mkdirExistOk(path) == FALSE

\* line 96: os.mkdir raises OSError on a path that exists
mkdirFails(path) == path \in exists

\* lines 73-78 and 93-102: ReportDirectory.__init__, _create and __enter__
Create ==
    /\ pc = "start"
    /\ IF args.output # TmpHint
       THEN IF mkdirFails(args.output)
            THEN /\ pc' = "done"
                 /\ exc' = "OSError"
                 /\ UNCHANGED <<name, exists>>
            ELSE /\ mkdir(args.output)
                 /\ name' = args.output
                 /\ pc' = "open"
                 /\ UNCHANGED exc
       ELSE /\ mkdir(FreshDir)
            /\ name' = FreshDir
            /\ pc' = "open"
            /\ UNCHANGED exc
    /\ UNCHANGED <<args, input, files, retval, listing, exitCount, removedBy,
                   reportCalls, number_of_bugs>>
    /\ UNCHANGED poolVars
    /\ UNCHANGED pureVars
    /\ UNCHANGED log

\* ReportDirectory.__exit__, line 82: os.listdir(self.name)
ExitListdir ==
    /\ pc = "exit"
    /\ exitCount' = exitCount + 1
    /\ listing' = <<files[name]>>
    /\ pc' = IF Retain(files[name], args.keep_empty) THEN "done" ELSE "rmdir"
    /\ UNCHANGED <<args, input, exc, retval, name, removedBy, reportCalls,
                   number_of_bugs>>
    /\ UNCHANGED fsVars
    /\ UNCHANGED poolVars
    /\ UNCHANGED pureVars
    /\ UNCHANGED log

\* os.rmdir(path): removes an empty directory, fails on one with entries
rmtree(path) ==
    /\ exists' = exists \ {path}
    /\ removedBy' = removedBy \cup {path}
    /\ UNCHANGED exc

rmdir(path) ==
    IF files[path] = {}
    THEN /\ exists' = exists \ {path}
         /\ removedBy' = removedBy \cup {path}
         /\ UNCHANGED exc
    ELSE /\ exc' = "OSError"
         /\ UNCHANGED <<exists, removedBy>>

\* ReportDirectory.__exit__, line 88: os.rmdir(self.name)
ExitRmdir ==
    /\ pc = "rmdir"
    /\ rmdir(name)
    /\ pc' = "done"
    /\ UNCHANGED <<args, input, files, retval, name, listing, exitCount,
                   reportCalls, number_of_bugs>>
    /\ UNCHANGED poolVars
    /\ UNCHANGED pureVars
    /\ UNCHANGED log

\* ---------------------------------------------------------- run_analyzer
\* line 295: open(args['input'], 'r')
Open ==
    /\ pc = "open"
    /\ IF input.kind = "missing"
       THEN pc' = Unwind /\ exc' = "IOError"
       ELSE pc' = "pool" /\ UNCHANGED exc
    /\ UNCHANGED <<args, input, retval, name, listing, exitCount, removedBy,
                   reportCalls, number_of_bugs>>
    /\ UNCHANGED fsVars
    /\ UNCHANGED poolVars
    /\ UNCHANGED pureVars
    /\ UNCHANGED log

PoolSizeAlwaysAll(sequential) == NumCPU

\* the argument of multiprocessing.Pool: None means one per processing unit
PoolSize(sequential) == IF sequential THEN 1 ELSE NumCPU

\* line 296: multiprocessing.Pool(1 if args['sequential'] else None)
CreatePool ==
    /\ pc = "pool"
    /\ processes' = PoolSize(args.sequential)
    /\ worker' = [w \in Workers |->
                    [st |-> IF w <= PoolSize(args.sequential) THEN "idle"
                            ELSE "none",
                     e |-> 0]]
    /\ pc' = "load"
    /\ UNCHANGED <<args, input, exc, retval, name, listing, exitCount,
                   removedBy, reportCalls, number_of_bugs>>
    /\ UNCHANGED <<taskq, dispatched, results, consumed, analysed, closed,
                   feeding>>
    /\ UNCHANGED fsVars
    /\ UNCHANGED pureVars
    /\ UNCHANGED log

\* line 298: json.load(handle), then pool.imap_unordered(run, wrap(...))
Load ==
    /\ pc = "load"
    /\ IF input.kind = "malformed"
       THEN pc' = Unwind /\ exc' = "ValueError" /\ UNCHANGED feeding
       ELSE pc' = "consume" /\ feeding' = TRUE /\ UNCHANGED exc
    /\ UNCHANGED <<args, input, retval, name, listing, exitCount, removedBy,
                   reportCalls, number_of_bugs>>
    /\ UNCHANGED <<processes, worker, taskq, dispatched, results, consumed,
                   analysed, closed>>
    /\ UNCHANGED fsVars
    /\ UNCHANGED pureVars
    /\ UNCHANGED log

DispatchEarly ==
    /\ pc # "done"
    /\ processes > 0
    /\ dispatched < input.n
    /\ dispatched' = dispatched + 1
    /\ taskq' = Append(taskq, dispatched + 1)
    /\ UNCHANGED <<args, input, processes, worker, results, consumed, analysed,
                   closed, feeding>>
    /\ UNCHANGED fsVars
    /\ UNCHANGED mainVars
    /\ UNCHANGED pureVars
    /\ UNCHANGED log

\* lines 290-293 and 297: the pool's task feeder draws the next entry from wrap()
Dispatch ==
    /\ pc # "done"
    /\ feeding
    /\ dispatched < input.n
    /\ dispatched' = dispatched + 1
    /\ taskq' = Append(taskq, dispatched + 1)
    /\ UNCHANGED <<args, input, processes, worker, results, consumed, analysed,
                   closed, feeding>>
    /\ UNCHANGED fsVars
    /\ UNCHANGED mainVars
    /\ UNCHANGED pureVars
    /\ UNCHANGED log

\* a pool worker takes the next task and starts run() on it
WorkerStart(w) ==
    /\ pc # "done"
    /\ worker[w].st = "idle"
    /\ taskq # <<>>
    /\ worker' = [worker EXCEPT ![w] = [st |-> "busy", e |-> Head(taskq)]]
    /\ taskq' = Tail(taskq)
    /\ analysed' = [analysed EXCEPT ![Head(taskq)] = @ + 1]
    /\ UNCHANGED <<args, input, processes, dispatched, results, consumed,
                   closed, feeding>>
    /\ UNCHANGED fsVars
    /\ UNCHANGED mainVars
    /\ UNCHANGED pureVars
    /\ UNCHANGED log

\* run() in a worker writes the analyzer's output into out_dir
WorkerWrite(w) ==
    /\ pc # "done"
    /\ worker[w].st = "busy"
    /\ name \in exists
    /\ OutFile(worker[w].e) \notin files[name]
    /\ files' = [files EXCEPT ![name] = @ \cup {OutFile(worker[w].e)}]
    /\ UNCHANGED <<args, input, exists>>
    /\ UNCHANGED poolVars
    /\ UNCHANGED mainVars
    /\ UNCHANGED pureVars
    /\ UNCHANGED log

\* run() ends in a worker: its value, or the exception it raised, is queued
WorkerFinish(w, outcome) ==
    /\ pc # "done"
    /\ worker[w].st = "busy"
    /\ results' = Append(results, [entry |-> worker[w].e, outcome |-> outcome])
    /\ worker' = [worker EXCEPT ![w] = [st |-> "idle", e |-> 0]]
    /\ UNCHANGED <<args, input, processes, taskq, dispatched, consumed,
                   analysed, closed, feeding>>
    /\ UNCHANGED fsVars
    /\ UNCHANGED mainVars
    /\ UNCHANGED pureVars
    /\ UNCHANGED log

\* the 'error_output' of the result run() returns for entry e: lines that
\* end in a newline
ErrorOutput(e) == [i \in 1..MaxLines |-> <<e, i, "\n">>]

\* str.rstrip: the line without its trailing whitespace
rstrip(line) == <<line[1], line[2], "">>

LoggedFirstLineOnly(current) ==
    IF current.outcome = "analyzer"
    THEN <<rstrip(ErrorOutput(current.entry)[1])>>
    ELSE <<>>

\* lines 299-301: what the body of the for loop passes to logging.info
Logged(current) ==
    IF current.outcome # "none" /\ current.outcome = "analyzer"
    THEN [i \in 1..Len(ErrorOutput(current.entry)) |->
             rstrip(ErrorOutput(current.entry)[i])]
    ELSE <<>>

RECURSIVE Total(_, _)
Total(f, S) == IF S = {} THEN 0
               ELSE LET x == CHOOSE y \in S : TRUE
                    IN f[x] + Total(f, S \ {x})

\* lines 297-301: the for loop gets the next result of imap_unordered,
\* which re-raises the exception a worker's run() raised
Consume ==
    /\ pc = "consume"
    /\ results # <<>>
    /\ results' = Tail(results)
    /\ consumed' = [consumed EXCEPT ![Head(results).entry] = @ + 1]
    /\ IF Head(results).outcome = "raise"
       THEN pc' = Unwind /\ exc' = "WorkerError" /\ UNCHANGED log
       ELSE log' = log \o Logged(Head(results)) /\ UNCHANGED <<pc, exc>>
    /\ UNCHANGED <<args, input, retval, name, listing, exitCount, removedBy,
                   reportCalls, number_of_bugs>>
    /\ UNCHANGED <<processes, worker, taskq, dispatched, analysed, closed,
                   feeding>>
    /\ UNCHANGED fsVars
    /\ UNCHANGED pureVars

\* the iterator is exhausted once it has yielded as many results as tasks were fed
Exhausted == dispatched = input.n /\ Total(consumed, Entries) = input.n

\* line 302: the for loop ended, pool.close()
Close ==
    /\ pc = "consume"
    /\ Exhausted
    /\ closed' = TRUE
    /\ pc' = "join"
    /\ UNCHANGED <<args, input, exc, retval, name, listing, exitCount,
                   removedBy, reportCalls, number_of_bugs>>
    /\ UNCHANGED <<processes, worker, taskq, dispatched, results, consumed,
                   analysed, feeding>>
    /\ UNCHANGED fsVars
    /\ UNCHANGED pureVars
    /\ UNCHANGED log

\* a worker of a closed pool exits when no task is left for it
WorkerExit(w) ==
    /\ pc # "done"
    /\ closed
    /\ worker[w].st = "idle"
    /\ taskq = <<>>
    /\ worker' = [worker EXCEPT ![w] = [st |-> "exited", e |-> 0]]
    /\ UNCHANGED <<args, input, processes, taskq, dispatched, results,
                   consumed, analysed, closed, feeding>>
    /\ UNCHANGED fsVars
    /\ UNCHANGED mainVars
    /\ UNCHANGED pureVars
    /\ UNCHANGED log

JoinedNoWait == TRUE

\* pool.join() returns once every worker process has exited
Joined == \A w \in Workers : worker[w].st \in {"none", "exited"}

\* line 303: pool.join(), run_analyzer returns
Join ==
    /\ pc = "join"
    /\ Joined
    /\ pc' = "report"
    /\ UNCHANGED <<args, input, exc, retval, name, listing, exitCount,
                   removedBy, reportCalls, number_of_bugs>>
    /\ UNCHANGED poolVars
    /\ UNCHANGED fsVars
    /\ UNCHANGED pureVars
    /\ UNCHANGED log

\* ------------------------------------------------------------------ main
needs_report_html_only(opts) == "html" = opts.output_format

\* lines 45-47
needs_report_file(opts) ==
    "html" = opts.output_format \/ "plist-html" = opts.output_format

\* line 64: return number_of_bugs if 'status_bugs' in args else 0
ExitStatus(opts, bugs) == IF "status_bugs" \in DOMAIN opts THEN bugs ELSE 0

\* lines 56-64: generate_report(...) if needs_report_file(args) else 0, return
Report ==
    /\ pc = "report"
    /\ pc' = Unwind
    /\ IF needs_report_file(args)
       THEN /\ reportCalls' = reportCalls + 1
            /\ \/ \E b \in 0..MaxBugs, wrote \in BOOLEAN :
                    /\ number_of_bugs' = b
                    /\ retval' = ExitStatus(args, b)
                    /\ files' = IF wrote
                                THEN [files EXCEPT ![name] = @ \cup {ReportFile}]
                                ELSE files
                    /\ UNCHANGED exc
               \/ /\ exc' = "ReportError"
                  /\ UNCHANGED <<number_of_bugs, retval, files>>
       ELSE /\ number_of_bugs' = 0
            /\ retval' = ExitStatus(args, 0)
            /\ UNCHANGED <<reportCalls, exc, files>>
    /\ UNCHANGED <<args, input, exists, name, listing, exitCount, removedBy>>
    /\ UNCHANGED poolVars
    /\ UNCHANGED pureVars
    /\ UNCHANGED log

Next == \/ Create \/ ExitListdir \/ ExitRmdir
        \/ Open \/ CreatePool \/ Load \/ Dispatch
        \/ (\E w \in Workers : WorkerStart(w))
        \/ (\E w \in Workers : WorkerWrite(w))
        \/ (\E w \in Workers, o \in RunOutcomes : WorkerFinish(w, o))
        \/ Consume \/ Close
        \/ (\E w \in Workers : WorkerExit(w))
        \/ Join \/ Report

Spec == Init /\ [][Next]_vars

\* ------------------------------------------- parameters_from_command_line
\* values of the args dictionary: None, a string, a boolean, an integer
\* or a list of strings
NoneV == [t |-> "none", s |-> <<>>, n |-> 0]
StrV(x) == [t |-> "str", s |-> <<x>>, n |-> 0]
BoolV(b) == [t |-> "bool", s |-> <<>>, n |-> IF b THEN 1 ELSE 0]
IntV(k) == [t |-> "int", s |-> <<>>, n |-> k]
ListV(l) == [t |-> "list", s |-> l, n |-> 0]

PluginNames == <<"p1.so", "p2.so", "p3.so">>
EnableNames == <<"core.A", "core.B", "core.C">>
DisableNames == <<"alpha.X", "alpha.Y", "alpha.Z">>

\* what action='append' leaves: None, or the list of the values given
AppendValues(names) ==
    {NoneV} \cup {ListV(SubSeq(names, 1, k)) : k \in 1..MaxList}

\* the values parse_command_line can give each key the translator reads
ValuesOf ==
    [analyze_headers |-> {BoolV(FALSE), BoolV(TRUE)},
     output_format |-> {StrV("html"), StrV("plist")},
     verbose |-> {IntV(0), IntV(2)},
     stats |-> {BoolV(FALSE), BoolV(TRUE)},
     internal_stats |-> {BoolV(FALSE), BoolV(TRUE)},
     maxloop |-> {IntV(4), IntV(16)},
     store_model |-> {StrV("region"), StrV("basic")},
     constraints_model |-> {StrV("range")},
     analyzer_config |-> {NoneV, StrV("stable-report-filename=true")},
     plugins |-> AppendValues(PluginNames),
     enable_checker |-> AppendValues(EnableNames),
     disable_checker |-> {NoneV, ListV(SubSeq(DisableNames, 1, 1))}]

\* the keys in the order the parser declares them
ParserKeys ==
    <<"analyze_headers", "output_format", "verbose", "stats",
      "internal_stats", "maxloop", "store_model", "constraints_model",
      "analyzer_config", "plugins", "enable_checker", "disable_checker">>

Reverse(q) == [i \in 1..Len(q) |-> q[Len(q) + 1 - i]]

\* the orders in which the keys are put in the mapping
KeyOrders == {ParserKeys, Reverse(ParserKeys)}

\* the mappings: a sequence of items [k, v], one per key, in a key order
Mappings ==
    {[i \in 1..Len(order) |-> [k |-> order[i], v |-> val[order[i]]]] :
        order \in KeyOrders,
        val \in [analyze_headers : ValuesOf.analyze_headers,
                 output_format : ValuesOf.output_format,
                 verbose : ValuesOf.verbose,
                 stats : ValuesOf.stats,
                 internal_stats : ValuesOf.internal_stats,
                 maxloop : ValuesOf.maxloop,
                 store_model : ValuesOf.store_model,
                 constraints_model : ValuesOf.constraints_model,
                 analyzer_config : ValuesOf.analyzer_config,
                 plugins : ValuesOf.plugins,
                 enable_checker : ValuesOf.enable_checker,
                 disable_checker : ValuesOf.disable_checker]}

\* k in d
In(d, k) == \E i \in 1..Len(d) : d[i].k = k

\* d[k]
Get(d, k) == d[CHOOSE i \in 1..Len(d) : d[i].k = k].v

Digits == <<"0", "1", "2", "3", "4", "5", "6", "7", "8", "9">>

\* str(n) of an integer n >= 0: its decimal digits
RECURSIVE Str(_)
Str(n) == IF n < 10 THEN <<Digits[n + 1]>>
          ELSE Str(n \div 10) \o <<Digits[(n % 10) + 1]>>

\* '<flag>{0}'.format(x): a token is the tuple of its pieces
Format(flag, x) == <<flag, x>>

\* functools.reduce(lambda acc, x: acc + [flag, x], list, acc)
RECURSIVE ReducePairs(_, _, _)
ReducePairs(flag, list, acc) ==
    IF list = <<>> THEN acc
    ELSE ReducePairs(flag, Tail(list), acc \o <<<<flag>>, <<Head(list)>>>>)

WrapAfter(result) ==
    LET RECURSIVE W(_, _)
        W(list, acc) == IF list = <<>> THEN acc
                        ELSE W(Tail(list), acc \o <<Head(list), <<"-Xclang">>>>)
    IN W(result, <<>>)

\* lines 348-349: functools.reduce(lambda acc, x: acc + ['-Xclang', x], result, [])
Wrap(result) ==
    LET RECURSIVE W(_, _)
        W(list, acc) == IF list = <<>> THEN acc
                        ELSE W(Tail(list), acc \o <<<<"-Xclang">>, Head(list)>>)
    IN W(result, <<>>)

\* line 310: {k: v for k, v in args.items() if v is not None}
NotNone(d) == SelectSeq(d, LAMBDA item : item.v.t # "none")

\* what one item of the mapping contributes
FlagsOfItem(item) ==
    IF item.k = "store_model" THEN <<Format("-analyzer-store=", item.v.s[1])>>
    ELSE IF item.k = "constraints_model"
    THEN <<Format("-analyzer-constraints=", item.v.s[1])>>
    ELSE IF item.k = "internal_stats" THEN <<<<"-analyzer-stats">>>>
    ELSE IF item.k = "analyze_headers"
    THEN <<<<"-analyzer-opt-analyze-headers">>>>
    ELSE IF item.k = "stats" THEN <<<<"-analyzer-checker=debug.Stats">>>>
    ELSE IF item.k = "maxloop" THEN <<<<"-analyzer-max-loop">>, Str(item.v.n)>>
    ELSE IF item.k = "output_format"
    THEN <<Format("-analyzer-output=", item.v.s[1])>>
    ELSE IF item.k = "analyzer_config" THEN <<item.v.s>>
    ELSE IF item.k = "verbose"
    THEN IF 2 <= item.v.n THEN <<<<"-analyzer-display-progress">>>> ELSE <<>>
    ELSE IF item.k = "plugins" THEN ReducePairs("-load", item.v.s, <<>>)
    ELSE IF item.k = "enable_checker"
    THEN ReducePairs("-analyzer-checker", item.v.s, <<>>)
    ELSE IF item.k = "disable_checker"
    THEN ReducePairs("-analyzer-disable-checker", item.v.s, <<>>)
    ELSE <<>>

FlagsInItemOrder(d) ==
    LET opts == NotNone(d)
        RECURSIVE F(_, _)
        F(items, acc) == IF items = <<>> THEN acc
                         ELSE F(Tail(items), acc \o FlagsOfItem(Head(items)))
    IN F(opts, <<>>)

\* lines 310-347: the list 'result' before it is wrapped
Flags(d) ==
    LET opts == NotNone(d)
        r1 == IF In(opts, "store_model")
              THEN <<Format("-analyzer-store=", Get(opts, "store_model").s[1])>>
              ELSE <<>>
        r2 == IF In(opts, "constraints_model")
              THEN r1 \o <<Format("-analyzer-constraints=",
                                  Get(opts, "constraints_model").s[1])>>
              ELSE r1
        r3 == IF In(opts, "internal_stats")
              THEN r2 \o <<<<"-analyzer-stats">>>> ELSE r2
        r4 == IF In(opts, "analyze_headers")
              THEN r3 \o <<<<"-analyzer-opt-analyze-headers">>>> ELSE r3
        r5 == IF In(opts, "stats")
              THEN r4 \o <<<<"-analyzer-checker=debug.Stats">>>> ELSE r4
        r6 == IF In(opts, "maxloop")
              THEN r5 \o <<<<"-analyzer-max-loop">>, Str(Get(opts, "maxloop").n)>>
              ELSE r5
        r7 == IF In(opts, "output_format")
              THEN r6 \o <<Format("-analyzer-output=",
                                  Get(opts, "output_format").s[1])>>
              ELSE r6
        r8 == IF In(opts, "analyzer_config")
              THEN r7 \o <<Get(opts, "analyzer_config").s>> ELSE r7
        r9 == IF In(opts, "verbose") /\ 2 <= Get(opts, "verbose").n
              THEN r8 \o <<<<"-analyzer-display-progress">>>> ELSE r8
        r10 == IF In(opts, "plugins")
               THEN ReducePairs("-load", Get(opts, "plugins").s, r9) ELSE r9
        r11 == IF In(opts, "enable_checker")
               THEN ReducePairs("-analyzer-checker",
                                Get(opts, "enable_checker").s, r10)
               ELSE r10
        r12 == IF In(opts, "disable_checker")
               THEN ReducePairs("-analyzer-disable-checker",
                                Get(opts, "disable_checker").s, r11)
               ELSE r11
    IN  IF In(opts, "ubiviz")
        THEN r12 \o <<<<"-analyzer-viz-egraph-ubigraph">>>> ELSE r12

\* lines 306-349
parameters_from_command_line(d) == Wrap(Flags(d))

ArgsFiltered(d) == NotNone(d)

\* the args dictionary after the call: the function builds 'opts' and
\* 'result' anew and assigns to no key of args
ArgsAfter(d) == d

\* the state of a run of main, at rest
RunIdle ==
    /\ args = [input |-> "compile_commands.json", output |-> TmpHint,
               sequential |-> FALSE, status_bugs |-> FALSE,
               keep_empty |-> FALSE, output_format |-> "html"]
    /\ input = [kind |-> "ok", n |-> 0]
    /\ exists = {VarTmp}
    /\ files = [p \in Paths |-> {}]
    /\ pc = "start"
    /\ exc = None
    /\ retval = 0
    /\ name = None
    /\ processes = 0
    /\ worker = [w \in Workers |-> [st |-> "none", e |-> 0]]
    /\ taskq = <<>>
    /\ dispatched = 0
    /\ results = <<>>
    /\ consumed = [e \in Entries |-> 0]
    /\ analysed = [e \in Entries |-> 0]
    /\ closed = FALSE
    /\ feeding = FALSE
    /\ listing = <<>>
    /\ exitCount = 0
    /\ removedBy = {}
    /\ reportCalls = 0
    /\ number_of_bugs = 0
    /\ log = <<>>

InitArgs ==
    /\ RunIdle
    /\ xl \in {[cfg |-> d, outs |-> <<>>] : d \in Mappings}
    /\ px = <<>>
    /\ dd = <<>>

\* a call of parameters_from_command_line(args)
Translate ==
    /\ Len(xl.outs) < MaxCalls
    /\ xl' = [cfg |-> ArgsAfter(xl.cfg),
              outs |-> Append(xl.outs, parameters_from_command_line(xl.cfg))]
    /\ UNCHANGED <<px, dd>>
    /\ UNCHANGED runVars

NextArgs == Translate

SpecArgs == InitArgs /\ [][NextArgs]_vars

\* -------------------------------------------------------- get_prefix_from
\* a path is the sequence of its characters
Root == <<"/">>

\* the 'file' of the entries a database can hold
SourceFiles ==
    {<<"/", "a", "/", "b", "/", "x">>,
     <<"/", "a", "/", "b", "c", "/", "y">>,
     <<"/", "a", "/", "b", "d", "/", "v">>,
     <<"/", "a", "/", "b", "/", "c", "/", "z">>,
     <<"/", "d", "/", "w">>}

\* str.rstrip('/')
RECURSIVE rstripSlash(_)
rstripSlash(p) ==
    IF p # <<>> /\ p[Len(p)] = "/" THEN rstripSlash(SubSeq(p, 1, Len(p) - 1))
    ELSE p

\* os.path.dirname (posixpath): the part before the last '/', without
\* trailing slashes unless it consists of slashes only
dirname(p) ==
    LET slashes == {k \in 1..Len(p) : p[k] = "/"}
        i == IF slashes = {} THEN 0
             ELSE CHOOSE k \in slashes : \A l \in slashes : l <= k
        head == SubSeq(p, 1, i)
    IN IF head # <<>> /\ \E k \in 1..Len(head) : head[k] # "/"
       THEN rstripSlash(head) ELSE head

\* a directory and the directories above it
RECURSIVE Ancestors(_)
Ancestors(p) == IF dirname(p) = p \/ p = <<>> THEN {p}
                ELSE {p} \cup Ancestors(dirname(p))

AllDirs == UNION {Ancestors(dirname(f)) : f \in SourceFiles}

\* the directories that exist: those the entries of the database lie in
DirsOf(db) == {Root} \cup UNION {Ancestors(dirname(db[k])) : k \in 1..Len(db)}

\* os.path.isdir
isdir(fs, p) == p \in fs

\* os.path.commonprefix([a, b]): the longest common leading characters
commonprefix(a, b) ==
    LET n == IF Len(a) <= Len(b) THEN Len(a) ELSE Len(b)
        same == {k \in 0..n : \A l \in 1..k : a[l] = b[l]}
        m == CHOOSE k \in same : \A l \in same : l <= k
    IN SubSeq(a, 1, m)

\* the compilation databases: up to MaxDb entries
RECURSIVE SeqsUpTo(_, _)
SeqsUpTo(S, n) ==
    IF n = 0 THEN {<<>>}
    ELSE SeqsUpTo(S, n - 1)
         \cup {Append(q, x) : q \in {r \in SeqsUpTo(S, n - 1) : Len(r) = n - 1},
                              x \in S}

InitPrefix ==
    /\ RunIdle
    /\ px \in {[db |-> db, fs |-> DirsOf(db), i |-> 0, unset |-> TRUE,
                result |-> <<>>, returned |-> FALSE] :
                  db \in SeqsUpTo(SourceFiles, MaxDb)}
    /\ xl = <<>>
    /\ dd = <<>>

\* lines 358-360 and 369-372: one turn of the loop of common() over filenames()
PrefixStep ==
    /\ ~px.returned
    /\ px.i < Len(px.db)
    /\ LET current == dirname(px.db[px.i + 1]) IN
       px' = [px EXCEPT !.i = @ + 1,
                        !.unset = FALSE,
                        !.result = IF px.unset THEN current
                                   ELSE commonprefix(px.result, current)]
    /\ UNCHANGED <<xl, dd>>
    /\ UNCHANGED runVars

\* lines 362-367: the value common() returns
PrefixReturn ==
    /\ ~px.returned
    /\ px.i = Len(px.db)
    /\ px' = [px EXCEPT !.returned = TRUE,
                        !.result = IF px.unset THEN <<>>
                                   ELSE IF ~isdir(px.fs, px.result)
                                   THEN dirname(px.result)
                                   ELSE px.result]
    /\ UNCHANGED <<xl, dd>>
    /\ UNCHANGED runVars

NextPrefix == PrefixStep \/ PrefixReturn

SpecPrefix == InitPrefix /\ [][NextPrefix]_vars

\* -------------------------------------------------------- duplicate_check
\* the entries fed to the predicates: dictionaries with an identity and more
Records ==
    {[id |-> "a", tag |-> "x"], [id |-> "a", tag |-> "y"],
     [id |-> "b", tag |-> "x"]}

\* the hash method given to duplicate_check
unique(entry) == entry.id

\* the predicates built, each by its own call of duplicate_check
Predicates == {"p", "q"}

\* lines 25 and 27-28: the value predicate(entry) returns
predicateReturn(state, entry) == unique(entry) \in state

predicateStateForget(state, entry) == state

\* lines 25-26: predicate.state after predicate(entry)
predicateState(state, entry) == state \cup {unique(entry)}

\* lines 30-32: each call of duplicate_check gives its predicate a new set
InitDup ==
    /\ RunIdle
    /\ dd \in {[recs |-> r,
                state |-> [f \in Predicates |-> {}],
                answers |-> [f \in Predicates |-> <<>>]] :
                  r \in SeqsUpTo(Records, MaxRecs)}
    /\ xl = <<>>
    /\ px = <<>>

\* lines 23-28: predicate f is called on the next record of the sequence
Feed(f) ==
    /\ Len(dd.answers[f]) < Len(dd.recs)
    /\ LET entry == dd.recs[Len(dd.answers[f]) + 1] IN
       dd' = [dd EXCEPT
                !.answers[f] = Append(@, predicateReturn(dd.state[f], entry)),
                !.state[f] = predicateState(@, entry)]
    /\ UNCHANGED <<xl, px>>
    /\ UNCHANGED runVars

NextDup == \E f \in Predicates : Feed(f)

SpecDup == InitDup /\ [][NextDup]_vars

\* ------------------------------------------------------------ properties
\* the main process is inside the body of the with statement
InWith == pc \in {"open", "pool", "load", "consume", "join", "report"}

Acquired == name # None

\* run_analyzer returned to main (it did not raise)
Returned == closed /\ pc # "join"

LoadErrors == {"IOError", "ValueError"}

\* C1: from acquisition to release the output directory exists; once
\* __exit__ has returned it exists iff os.listdir found it non-empty, or
\* found it empty with keep-empty set, and is absent otherwise.
C1_DirectoryAfterRelease ==
    /\ (InWith \/ pc \in {"exit", "rmdir"}) => name \in exists
    /\ (pc = "done" /\ exitCount = 1 /\ exc # "OSError") =>
          /\ (listing[1] # {} \/ args.keep_empty) => name \in exists
          /\ (listing[1] = {} /\ ~args.keep_empty) => name \notin exists

C1_Witness ==
    /\ pc = "done" /\ exitCount = 1 /\ exc = None
    /\ listing = <<{}>> /\ ~args.keep_empty /\ name \notin exists

\* C2: in a run that acquired the output directory, __exit__ is entered
\* at most once, and exactly once by the time the run has ended.
C2_ReleaseExactlyOnce ==
    /\ exitCount <= 1
    /\ ~Acquired => exitCount = 0
    /\ (pc = "done" /\ Acquired) => exitCount = 1

C2_Witness ==
    pc = "done" /\ Acquired /\ exitCount = 1 /\ exc = "WorkerError"

\* C3: no step removes a directory that contains a file, also when a
\* worker writes between the os.listdir and the os.rmdir of __exit__.
C3_NeverRemovedNonEmpty ==
    [][\A p \in Paths : (p \in exists /\ p \notin exists') => files[p] = {}]_vars

C3_Witness ==
    /\ pc = "done" /\ exitCount = 1 /\ listing = <<{}>>
    /\ files[name] # {} /\ name \in exists /\ exc = "OSError"

\* C4: when the run has ended, every entry dispatched to the pool was
\* analysed once and its result was consumed once by the for loop.
C4_ExactlyOneResult ==
    pc = "done" =>
        \A e \in 1..dispatched : analysed[e] = 1 /\ consumed[e] = 1

\* C5: once the entries are being dispatched, a failing analysis step does
\* not abort run_analyzer: every entry is analysed, its result consumed,
\* and the pool is closed and joined.
C5_FailureNeverAborts ==
    (pc = "done" /\ feeding) =>
        /\ closed
        /\ \A w \in Workers : worker[w].st \in {"none", "exited"}
        /\ \A e \in 1..input.n : analysed[e] = 1 /\ consumed[e] = 1

\* C6: once run_analyzer has returned, every worker has exited and no
\* entry is waiting, being analysed, or waiting to be consumed.
C6_ReturnedMeansJoined ==
    Returned =>
        /\ \A w \in Workers : worker[w].st \in {"none", "exited"}
        /\ taskq = <<>> /\ results = <<>>
        /\ dispatched = input.n
        /\ \A e \in 1..input.n : analysed[e] = 1 /\ consumed[e] = 1

C6_Witness ==
    pc = "report" /\ input.n = 2 /\ processes = 2 /\ Returned

\* C7: the entries being analysed at one instant are at most one when
\* sequential is set, and at most one per processing unit otherwise.
C7_PoolSizeBound ==
    LET busy == {w \in Workers : worker[w].st = "busy"} IN
    /\ Cardinality(busy) <= (IF args.sequential THEN 1 ELSE NumCPU)
    /\ \A v, w \in busy : v # w => worker[v].e # worker[w].e

C7_Witness ==
    /\ ~args.sequential
    /\ Cardinality({w \in Workers : worker[w].st = "busy"}) = 2

C7_WitnessSequential ==
    /\ args.sequential /\ taskq # <<>>
    /\ Cardinality({w \in Workers : worker[w].st = "busy"}) = 1

C9_ExitStatus ==
    (pc = "done" /\ exc = None) =>
        /\ (args.status_bugs /\ number_of_bugs # 0) => retval = 1
        /\ ~args.status_bugs => retval = 0

\* C10 as stated: when a LoadError is raised, this run has neither created
\* nor removed an output directory.
C10_UntouchedAtLoadError ==
    exc \in LoadErrors => (name = None /\ removedBy = {})

\* C10 amended: when a LoadError is raised the output directory has already
\* been created by this run; it is present and empty and no entry has been
\* dispatched; only the release step that follows removes it, and only when
\* keep-empty is not set.
C10_CreatedBeforeLoadError ==
    exc \in LoadErrors =>
        /\ Acquired
        /\ dispatched = 0 /\ files[name] = {}
        /\ \A e \in Entries : analysed[e] = 0
        /\ pc \in {"exit", "rmdir"} => (name \in exists /\ removedBy = {})
        /\ pc = "done" => (name \in exists <=> args.keep_empty)

C10_Witness ==
    /\ exc = "ValueError" /\ pc = "done"
    /\ name \notin exists /\ removedBy = {name}

\* the paths tempdir() can name as the temporary directory
ConventionalTmp == {tempdir(env) : env \in EnvSet}

Unwrapped(out) == [i \in 1..(Len(out) \div 2) |-> out[2 * i]]

\* the place of a flag in the fixed order; 0 for a token that is a value
FlagRank(tok) ==
    CASE tok[1] = "-analyzer-store=" -> 1
      [] tok[1] = "-analyzer-constraints=" -> 2
      [] tok[1] = "-analyzer-stats" -> 3
      [] tok[1] = "-analyzer-opt-analyze-headers" -> 4
      [] tok[1] = "-analyzer-checker=debug.Stats" -> 5
      [] tok[1] = "-analyzer-max-loop" -> 6
      [] tok[1] = "-analyzer-output=" -> 7
      [] tok[1] = "stable-report-filename=true" -> 8
      [] tok[1] = "-analyzer-display-progress" -> 9
      [] tok[1] = "-load" -> 10
      [] tok[1] = "-analyzer-checker" -> 11
      [] tok[1] = "-analyzer-disable-checker" -> 12
      [] OTHER -> 0

\* a value token belongs to the flag before it
RankAt(u, i) == IF FlagRank(u[i]) > 0 \/ i = 1 THEN FlagRank(u[i])
                ELSE FlagRank(u[i - 1])

\* the values that follow the token 'flag' in u, in order
ValuesAfter(u, flag) ==
    LET idx == SelectSeq([i \in 1..Len(u) |-> i],
                         LAMBDA i : i > 1 /\ u[i - 1] = <<flag>>)
    IN [j \in 1..Len(idx) |-> u[idx[j]][1]]

ListOf(d, k) == IF Get(d, k).t = "none" THEN <<>> ELSE Get(d, k).s

\* C12: the flags come out in the fixed order store model, constraint
\* model, internal-stats, analyze-headers, stats, max-loop pair, output
\* format, analyzer-config, progress display, plugins, enabled checkers,
\* disabled checkers, each list in list order, whatever the order of the
\* keys in the mapping.
C12_FixedOrder ==
    \A c \in 1..Len(xl.outs) :
        LET u == Unwrapped(xl.outs[c]) IN
        /\ \A i, j \in 1..Len(u) :
              i < j => (RankAt(u, i) > 0 /\ RankAt(u, i) <= RankAt(u, j))
        /\ ValuesAfter(u, "-load") = ListOf(xl.cfg, "plugins")
        /\ ValuesAfter(u, "-analyzer-checker") = ListOf(xl.cfg, "enable_checker")
        /\ ValuesAfter(u, "-analyzer-disable-checker")
              = ListOf(xl.cfg, "disable_checker")
        /\ xl.outs[c] = parameters_from_command_line(Reverse(xl.cfg))

C12_Witness ==
    /\ Len(xl.outs) >= 1
    /\ xl.cfg[1].k = "disable_checker"
    /\ Len(ListOf(xl.cfg, "plugins")) = 2
    /\ Len(ListOf(xl.cfg, "enable_checker")) = 2
    /\ Get(xl.cfg, "verbose").n = 2

\* the token 'flag' is among the flags of result out
Emitted(out, flag) == \E i \in 1..Len(out) : out[i] = <<flag>>

\* C13: the flag of internal-stats, of analyze-headers and of stats is
\* emitted only when the option is set; left at False it yields no flag.
C13_UnsetEmitsNoFlag ==
    \A c \in 1..Len(xl.outs) :
        /\ Emitted(xl.outs[c], "-analyzer-stats")
              => Get(xl.cfg, "internal_stats").n = 1
        /\ Emitted(xl.outs[c], "-analyzer-opt-analyze-headers")
              => Get(xl.cfg, "analyze_headers").n = 1
        /\ Emitted(xl.outs[c], "-analyzer-checker=debug.Stats")
              => Get(xl.cfg, "stats").n = 1

\* C18: the result has twice the tokens of the unwrapped list; its odd
\* positions (counted from 1) hold '-Xclang' and its even positions the
\* unwrapped flags in their order, the two tokens of a pair wrapped one by
\* one.
C18_Wrapped ==
    \A c \in 1..Len(xl.outs) :
        LET out == xl.outs[c]
            result == Flags(xl.cfg) IN
        /\ Len(out) = 2 * Len(result)
        /\ \A i \in 1..Len(result) :
              out[2 * i - 1] = <<"-Xclang">> /\ out[2 * i] = result[i]
        /\ \E i \in 1..Len(result) - 1 :
              /\ out[2 * i] = <<"-analyzer-max-loop">>
              /\ out[2 * i + 1] = <<"-Xclang">>
              /\ out[2 * i + 2] = Str(Get(xl.cfg, "maxloop").n)

C18_Witness ==
    /\ Len(xl.outs) >= 1
    /\ Len(ListOf(xl.cfg, "plugins")) = 2
    /\ Get(xl.cfg, "maxloop").n = 16
    /\ Len(xl.outs[1]) >= 20

IsDirPrefix(p, d) ==
    \/ p = d
    \/ /\ Len(p) < Len(d)
       /\ SubSeq(d, 1, Len(p)) = p
       /\ (p = Root \/ d[Len(p) + 1] = "/")

\* p is a common ancestor of the directories of all the entries
CommonDir(p, db) == \A k \in 1..Len(db) : IsDirPrefix(p, dirname(db[k]))

\* C14: for a non-empty database the result is the directory of, or an
\* ancestor of, every entry's source file, and no longer directory is.
C14_MaximalCommonDirectory ==
    (px.returned /\ px.db # <<>>) =>
        /\ CommonDir(px.result, px.db)
        /\ \A q \in AllDirs :
              CommonDir(q, px.db) => Len(q) <= Len(px.result)

\* the positions of the records predicate f answered False
Kept(f) == {k \in 1..Len(dd.answers[f]) : ~dd.answers[f][k]}

\* C15: a predicate answers False on the first record of each identity
\* and True on every later record of an identity already seen, whatever
\* the other predicate was fed; so the records answered False have pairwise
\* distinct identities, in their original order, one for every identity fed.
C15_FirstOccurrence ==
    \A f \in Predicates :
        /\ \A k \in 1..Len(dd.answers[f]) :
              dd.answers[f][k] <=>
                  \E j \in 1..(k - 1) : unique(dd.recs[j]) = unique(dd.recs[k])
        /\ \A j, k \in Kept(f) :
              j # k => unique(dd.recs[j]) # unique(dd.recs[k])
        /\ \A k \in 1..Len(dd.answers[f]) :
              \E j \in Kept(f) :
                  j <= k /\ unique(dd.recs[j]) = unique(dd.recs[k])

C15_Witness ==
    /\ Len(dd.recs) = 3
    /\ dd.answers["p"] = <<FALSE, TRUE, FALSE>>
    /\ dd.answers["q"] = <<FALSE>>
    /\ dd.recs[1] # dd.recs[2]

\* C16: an entry is dispatched or analysed only after json.load returned
\* the whole database; after a LoadError nothing was dispatched or analysed.
C16_NoDispatchBeforeLoad ==
    /\ (\/ dispatched > 0 \/ taskq # <<>> \/ results # <<>>
        \/ \E e \in Entries : analysed[e] > 0
        \/ \E w \in Workers : worker[w].st = "busy")
          => (feeding /\ input.kind = "ok")
    /\ exc \in LoadErrors =>
          /\ ~feeding /\ dispatched = 0 /\ taskq = <<>>
          /\ \A e \in Entries : analysed[e] = 0

C16_Witness ==
    exc = "ValueError" /\ processes > 0 /\ pc = "done" /\ dispatched = 0

\* the lines logging.info gets for a result
ExpectedLines(r) ==
    IF r.outcome = "analyzer" THEN [i \in 1..MaxLines |-> <<r.entry, i, "">>]
    ELSE <<>>

\* C17: consuming a result that carries 'analyzer' output appends its
\* lines to the log once, in their order and next to each other; any other
\* result, and any other step, leaves the log as it is.
C17_LinesLoggedInOrder ==
    /\ [][IF consumed' # consumed
          THEN log' = log \o ExpectedLines(Head(results))
          ELSE log' = log]_vars
    /\ [](\A p \in 1..Len(log) :
            /\ consumed[log[p][1]] = 1
            /\ log[p][2] = ((p - 1) % MaxLines) + 1
            /\ log[p][2] > 1 => log[p - 1][1] = log[p][1]
            /\ \A q \in 1..Len(log) :
                  (log[q][1] = log[p][1] /\ log[q][2] = log[p][2]) => q = p)

C17_Witness ==
    /\ pc = "done" /\ exc = None
    /\ Len(log) = 2 * MaxLines
    /\ log[1][1] = 2 /\ log[Len(log)][1] = 1

\* C20: generate_report runs before __exit__ is entered, __exit__ is
\* entered only after run_analyzer was left, its os.listdir sees the file
\* the report wrote, and a directory with a report in it is retained.
C20_ReportBeforeRelease ==
    /\ [][reportCalls' # reportCalls => (exitCount = 0 /\ exitCount' = 0)]_vars
    /\ [](/\ exitCount > 0 => pc \in {"rmdir", "done"}
          /\ (Acquired /\ exitCount = 1 /\ ReportFile \in files[name])
                => ReportFile \in listing[1]
          /\ (Acquired /\ pc = "done" /\ ReportFile \in files[name])
                => (name \in exists /\ removedBy = {} /\ exc = None))

C20_Witness ==
    /\ pc = "done" /\ Acquired /\ ~args.keep_empty /\ reportCalls = 1
    /\ files[name] = {ReportFile} /\ name \in exists
====
